---- MODULE Spec2Model ----
(***************************************************************************)
(* Model of ArticleGenerator1.py: a Streamlit page whose script is run     *)
(* from top to bottom on every UI event.  The model covers credential      *)
(* resolution (get_azure_credentials and the manual key input), the        *)
(* configuration file (load_config / save_config through json), the        *)
(* session prompt configuration and its edit widgets, and the "Save        *)
(* Configuration" and "Generate Research Article" handlers.                *)
(*                                                                         *)
(* Python values are tagged records: [none |-> TRUE] is None,              *)
(* [str |-> s] is a string and [obj |-> m] is a dict m.  A string is a     *)
(* sequence of symbols; a symbol is one character that matters to the code *)
(* (a space, a double quote, a backslash) or an unbroken run of characters *)
(* that needs no JSON escaping and is no whitespace (a word, or one of the *)
(* literal texts of the source).                                           *)
(***************************************************************************)
EXTENDS Integers, Sequences, FiniteSets, TLC

----------------------------------------------------------------------------
(* Python values *)

PyNone == [none |-> TRUE]
PyStr(s) == [str |-> s]
PyObj(m) == [obj |-> m]
EmptyMap == [k \in {} |-> PyNone]

IsNone(v) == "none" \in DOMAIN v
IsStr(v) == "str" \in DOMAIN v
IsObj(v) == "obj" \in DOMAIN v

\* Python truth value: None, "" and {} are false.
Truthy(v) ==
    IF IsStr(v) THEN v.str # <<>>
    ELSE IF IsObj(v) THEN DOMAIN v.obj # {}
    ELSE FALSE

\* Characters with a meaning for json and for str.strip().
QUOTE == "\""
BSL == "\\"
SPACE == " "
\* Structural output of json.dump with its default separators (", ", ": ").
LBRACE == "{"
RBRACE == "}"
COLON == ": "
COMMA == ", "

----------------------------------------------------------------------------
(* json.dump / json.load as used by save_config / load_config *)

\* Insertion order of the keys of the dict literals of the source; a loaded
\* dict has the order of the file, which save_config wrote in this order.
KeyOrder ==
    <<"planner", "writer", "editor", "tasks",
      "role", "goal", "backstory", "plan", "write", "edit">>

InDomain(m, k) == k \in DOMAIN m

RECURSIVE KeysFrom(_, _)
KeysFrom(m, i) ==
    IF i > Len(KeyOrder) THEN <<>>
    ELSE IF InDomain(m, KeyOrder[i]) THEN <<KeyOrder[i]>> \o KeysFrom(m, i + 1)
    ELSE KeysFrom(m, i + 1)

Keys(m) == KeysFrom(m, 1)

\* json string escaping: a quote and a backslash get a backslash in front.
RECURSIVE Escape(_)
Escape(s) ==
    IF s = <<>> THEN <<>>
    ELSE IF Head(s) = QUOTE \/ Head(s) = BSL
         THEN <<BSL, Head(s)>> \o Escape(Tail(s))
         ELSE <<Head(s)>> \o Escape(Tail(s))

DumpString(s) == <<QUOTE>> \o Escape(s) \o <<QUOTE>>

RECURSIVE Dump(_)
RECURSIVE DumpMembers(_, _)
DumpMembers(m, ks) ==
    IF ks = <<>> THEN <<>>
    ELSE DumpString(<<Head(ks)>>) \o <<COLON>> \o Dump(m[Head(ks)])
         \o (IF Tail(ks) = <<>> THEN <<>> ELSE <<COMMA>>)
         \o DumpMembers(m, Tail(ks))

\* json.dumps of a value built from dicts and strings.
Dump(v) ==
    IF IsStr(v) THEN DumpString(v.str)
    ELSE <<LBRACE>> \o DumpMembers(v.obj, Keys(v.obj)) \o <<RBRACE>>

\* A parse result: ok, the value, and the position after it in the input.
ParseFail == [ok |-> FALSE, val |-> PyNone, next |-> 0]
ParseOk(v, n) == [ok |-> TRUE, val |-> v, next |-> n]

\* The body of a string from position i (after its opening quote) up to
\* the closing quote.
RECURSIVE ScanString(_, _, _)
ScanString(s, i, acc) ==
    IF i > Len(s) THEN ParseFail
    ELSE IF s[i] = QUOTE THEN ParseOk(PyStr(acc), i + 1)
    ELSE IF s[i] = BSL
         THEN IF i + 1 <= Len(s) /\ (s[i + 1] = QUOTE \/ s[i + 1] = BSL)
              THEN ScanString(s, i + 2, Append(acc, s[i + 1]))
              ELSE ParseFail
    ELSE ScanString(s, i + 1, Append(acc, s[i]))

ParseString(s, i) ==
    IF i <= Len(s) /\ s[i] = QUOTE THEN ScanString(s, i + 1, <<>>) ELSE ParseFail

\* A dict key of the file.  Every key the program writes is one symbol; any
\* other key text (only a damaged file has one) is kept as one foreign key.
KeyOf(text) == IF Len(text) = 1 THEN text[1] ELSE "<key>"

Put(m, k, v) == (k :> v) @@ m

RECURSIVE ParseValue(_, _)
RECURSIVE ParseMembers(_, _, _)
ParseMembers(s, i, m) ==
    LET k == ParseString(s, i) IN
    IF ~k.ok \/ k.next > Len(s) \/ s[k.next] # COLON THEN ParseFail
    ELSE LET v == ParseValue(s, k.next + 1) IN
         IF ~v.ok \/ v.next > Len(s) THEN ParseFail
         ELSE LET m2 == Put(m, KeyOf(k.val.str), v.val) IN
              IF s[v.next] = RBRACE THEN ParseOk(PyObj(m2), v.next + 1)
              ELSE IF s[v.next] = COMMA THEN ParseMembers(s, v.next + 1, m2)
              ELSE ParseFail

ParseValue(s, i) ==
    IF i > Len(s) THEN ParseFail
    ELSE IF s[i] = QUOTE THEN ParseString(s, i)
    ELSE IF s[i] = LBRACE
         THEN IF i + 1 <= Len(s) /\ s[i + 1] = RBRACE
              THEN ParseOk(PyObj(EmptyMap), i + 2)
              ELSE ParseMembers(s, i + 1, EmptyMap)
    ELSE ParseFail

\* json.load: one value and nothing after it, else JSONDecodeError.
Load(s) ==
    LET r == ParseValue(s, 1) IN
    IF r.ok /\ r.next = Len(s) + 1 THEN r ELSE ParseFail

----------------------------------------------------------------------------
(* Bounds of the model *)

\* UI events of one behaviour after the first page load.
MaxEvents == 2
\* Edits of a prompt field among those events.
MaxEdits == 1
\* UI events after the first page load of a session without prompt edits.
MaxGenEvents == 3
\* Saves of each of the two processes that share the file.
MaxSaves == 1
\* Symbols one write(2) carries: the file object's buffer, in the model.
ChunkLen == 60

----------------------------------------------------------------------------
(* The inputs: environment, secret store, widgets, remote services *)

\* os.getenv of a variable: None when unset, else its (possibly empty) value.
EnvKeyValues == {PyNone, PyStr(<<>>), PyStr(<<"K1">>)}
EnvVaultValues == {PyNone, PyStr(<<>>), PyStr(<<"vault">>)}

\* What the secret store does when asked for the secret.
VaultOutcomes == {"secret", "auth_failure", "network_error", "missing_secret"}
VaultSecret == PyStr(<<"S1">>)

\* Texts typed into the password input, into a prompt field, and the
\* uploaded files (BADBYTE stands for bytes that are no UTF-8).
KeyTexts == {<<>>, <<SPACE>>, <<"K2">>, <<SPACE, "K2", SPACE>>}
EditTexts == {<<>>, <<QUOTE, "hi", BSL>>}
BADBYTE == "<0xff>"
Uploads == {<<>>, <<"transcript">>, <<BADBYTE>>}

\* What the remote endpoint and the crewai library do when called.
ProbeOutcomes == {"ok", "http_error", "connection_error"}
BuildOutcomes == {"ok", "error"}
KickOutcomes == {"result", "request_error_with_response",
                 "request_error_no_response", "error"}

Agents == {"planner", "writer", "editor"}
AgentFields == {"role", "goal", "backstory"}
TaskNames == {"plan", "write", "edit"}
TopKeys == Agents \cup {"tasks"}

\* The built-in prompts; each literal text of the source is one symbol.
Defaults ==
    PyObj([
      planner |-> PyObj([
        role |-> PyStr(<<"Content Planner">>),
        goal |-> PyStr(<<"Plan engaging and factually accurate content on the given topic">>),
        backstory |-> PyStr(<<"You're working on planning a research report about a given topic.">>)]),
      writer |-> PyObj([
        role |-> PyStr(<<"Content Writer">>),
        goal |-> PyStr(<<"Write insightful and factually accurate research report">>),
        backstory |-> PyStr(<<"You're working on writing a new opinion piece about a given topic.">>)]),
      editor |-> PyObj([
        role |-> PyStr(<<"Editor">>),
        goal |-> PyStr(<<"Edit a given blog post">>),
        backstory |-> PyStr(<<"You are an editor who receives a research article from the Content Writer.">>)]),
      tasks |-> PyObj([
        plan |-> PyStr(<<"Plan content for the topic">>),
        write |-> PyStr(<<"Write a research article based on the content plan">>),
        edit |-> PyStr(<<"Edit and finalize the research article">>)])])

----------------------------------------------------------------------------
(* The file system: agent_task_config.json *)

NoFile == [none |-> TRUE]
FileOf(d) == [data |-> d]
Exists(f) == "data" \in DOMAIN f

\* Faulty variant: the file opened with "a", its content kept.
Truncate_Append(f) == IF Exists(f) THEN f ELSE FileOf(<<>>)
\* open(path, "w"): the file is created or cut to length 0.
Truncate(f) == FileOf(<<>>)

\* write(2) of d at offset off (counted from 0) of a file of data old; an
\* offset past the end leaves a hole of NUL bytes.
NUL == "<0x00>"
WriteAt(old, off, d) ==
    [i \in 1..(IF off + Len(d) > Len(old) THEN off + Len(d) ELSE Len(old)) |->
        IF i > off /\ i <= off + Len(d) THEN d[i - off]
        ELSE IF i <= Len(old) THEN old[i] ELSE NUL]

\* save_config: open for writing, json.dump, close.  With "w" the writer
\* starts at offset 0 of the emptied file.
save_config(config, f) ==
    LET opened == Truncate(f) IN
    FileOf(WriteAt(opened.data, Len(opened.data), Dump(config)))

\* Faulty variant: the file is never found (another path is read).
load_config_Empty(f) == [raised |-> "none", val |-> PyObj(EmptyMap)]
\* load_config: {} when the file does not exist; a file that is no JSON
\* makes json.load raise, and nothing here catches that.
load_config(f) ==
    IF ~Exists(f) THEN [raised |-> "none", val |-> PyObj(EmptyMap)]
    ELSE LET r == Load(f.data) IN
         IF r.ok THEN [raised |-> "none", val |-> r.val]
         ELSE [raised |-> "JSONDecodeError", val |-> PyNone]

----------------------------------------------------------------------------
(* Credential resolution *)

VaultFails(outcome) == outcome # "secret"

\* Faulty variant: the secret store is asked before the environment.
get_azure_credentials_VaultFirst(env, vault) ==
    IF Truthy(env.vault_name)
    THEN [ret |-> IF VaultFails(vault) THEN PyNone ELSE VaultSecret,
          calls |-> <<"vault">>,
          msgs |-> IF VaultFails(vault)
                   THEN <<"Error getting Azure credentials">> ELSE <<>>,
          raised |-> "none"]
    ELSE [ret |-> IF Truthy(env.api_key) THEN env.api_key ELSE PyNone,
          calls |-> <<>>, msgs |-> <<>>, raised |-> "none"]

\* Faulty variant: no except clause, a failure of the store propagates.
\* get_azure_credentials.  vault is what the secret store does if asked.
\* ret is the value returned, calls the remote calls made, msgs what st.error
\* showed, raised the exception that left the function ("none": none does).
get_azure_credentials_NoExcept(env, vault) ==
    IF Truthy(env.api_key)
    THEN [ret |-> env.api_key, calls |-> <<>>, msgs |-> <<>>, raised |-> "none"]
    ELSE IF Truthy(env.vault_name)
    THEN IF VaultFails(vault)
         THEN [ret |-> PyNone, calls |-> <<"vault">>, msgs |-> <<>>,
               raised |-> vault]
         ELSE [ret |-> VaultSecret, calls |-> <<"vault">>, msgs |-> <<>>,
               raised |-> "none"]
    ELSE [ret |-> PyNone, calls |-> <<>>, msgs |-> <<>>, raised |-> "none"]

get_azure_credentials(env, vault) ==
    IF Truthy(env.api_key)
    THEN [ret |-> env.api_key, calls |-> <<>>, msgs |-> <<>>, raised |-> "none"]
    ELSE IF Truthy(env.vault_name)
    THEN IF VaultFails(vault)
         THEN [ret |-> PyNone, calls |-> <<"vault">>,
               msgs |-> <<"Error getting Azure credentials">>, raised |-> "none"]
         ELSE [ret |-> VaultSecret, calls |-> <<"vault">>, msgs |-> <<>>,
               raised |-> "none"]
    ELSE [ret |-> PyNone, calls |-> <<>>, msgs |-> <<>>, raised |-> "none"]

\* str.strip(): whitespace removed at both ends.
Whitespace == {SPACE, "\t", "\n"}

RECURSIVE LStrip(_)
LStrip(s) ==
    IF s # <<>> /\ Head(s) \in Whitespace THEN LStrip(Tail(s)) ELSE s

RECURSIVE RStrip(_)
RStrip(s) ==
    IF s # <<>> /\ s[Len(s)] \in Whitespace
    THEN RStrip(SubSeq(s, 1, Len(s) - 1)) ELSE s

\* Faulty variant: the typed key is not stripped.
Strip_Identity(s) == s
Strip(s) == RStrip(LStrip(s))

\* Lines 68-70: the password input is shown, and its text used, only when
\* get_azure_credentials returned nothing.
ResolveKey(auto, typed) ==
    IF ~Truthy(auto)
    THEN (IF typed # <<>> THEN PyStr(Strip(typed)) ELSE PyStr(<<>>))
    ELSE auto

----------------------------------------------------------------------------
(* Session prompts and their widgets *)

\* Faulty variant: the loaded mapping is taken even when empty.
InitPrompts_NoDefaults(config) == config
\* Line 110: config or {...built-in prompts...}.
InitPrompts(config) == IF Truthy(config) THEN config ELSE Defaults

\* Lines 136-155 index the mapping; what they raise on a mapping of another
\* shape ("none": nothing).
WidgetError(p) ==
    IF ~IsObj(p) THEN "AttributeError"
    ELSE IF \E a \in DOMAIN p.obj \ {"tasks"} : ~IsObj(p.obj[a]) THEN "TypeError"
    ELSE IF \E a \in DOMAIN p.obj \ {"tasks"} : ~(AgentFields \subseteq DOMAIN p.obj[a].obj)
         THEN "KeyError"
    ELSE IF "tasks" \notin DOMAIN p.obj THEN "KeyError"
    ELSE IF ~IsObj(p.obj["tasks"]) THEN "AttributeError"
    ELSE "none"

\* The fields a widget is drawn for.
EditTargets(p) ==
    {<<a, f>> : a \in DOMAIN p.obj \ {"tasks"}, f \in AgentFields}
    \cup {<<"tasks", t>> : t \in DOMAIN p.obj["tasks"].obj}

NoEdit == <<>>

\* Faulty variant: the edited field replaces the whole mapping.
ApplyEdit_Replace(p, edit) ==
    IF edit = NoEdit THEN p
    ELSE PyObj([k \in {edit[1]} |-> PyObj([f \in {edit[2]} |-> PyStr(edit[3])])])
\* prompts[field] = st.text_input(...): the widget's text is stored in place.
ApplyEdit(p, edit) ==
    IF edit = NoEdit THEN p
    ELSE PyObj([p.obj EXCEPT ![edit[1]] =
                  PyObj([@.obj EXCEPT ![edit[2]] = PyStr(edit[3])])])

\* Faulty variant: the key is stored among the prompts that are saved.
SavedValue_WithKey(prompts, key) ==
    PyObj([prompts.obj EXCEPT !["planner"] =
             PyObj([@.obj EXCEPT !["role"] = key])])
\* Line 159: what the Save Configuration handler hands to save_config.
SavedValue(prompts, key) == prompts

----------------------------------------------------------------------------
(* The Generate Research Article handler *)

\* Exceptions by class.  st.stop() raises StopException, a BaseException
\* that is no Exception; the kickoff outcomes other than "result" and the
\* build outcome "error" are Exceptions.
IsException(e) == e \notin {"none", "StopException"}
IsRequestException(e) ==
    e \in {"request_error_with_response", "request_error_no_response"}

Outcome(c, m, st, r, h) ==
    [calls |-> c, msgs |-> m, stopped |-> st, raised |-> r, handler |-> h]

\* Lines 243-251: the outer handlers.  hasattr(api_error, 'response') holds
\* of every RequestException, also of one whose response is None.
OuterExcept(e, c, m) ==
    IF IsRequestException(e)
    THEN IF e = "request_error_with_response"
         THEN Outcome(c, m \o <<"API Error occurred:", "Error details",
                                 "Response Status Code", "Response Content">>,
                      FALSE, "none", "api")
         ELSE Outcome(c, m \o <<"API Error occurred:", "Error details">>,
                      FALSE, "AttributeError", "api")
    ELSE IF IsException(e)
    THEN Outcome(c, m \o <<"An unexpected error occurred", "Traceback">>,
                 FALSE, "none", "generic")
    ELSE Outcome(c, m, e = "StopException", "none", "uncaught")

\* Lines 177-241: the success message, then the inner try block (agents,
\* tasks, crew, kickoff) and its except Exception.
Pipeline(build, kick, c0, m0) ==
    LET innerExc == IF build = "error" THEN "error"
                    ELSE IF kick # "result" THEN kick ELSE "none"
        c == c0 \o (IF build = "error" THEN <<"Agent">>
                    ELSE <<"Agent", "Agent", "Agent", "Task", "Task", "Task",
                           "Crew", "kickoff">>)
        m == m0 \o <<"API connection successful!">>
    IN  IF innerExc = "none"
        THEN Outcome(c, m \o <<"Research article generated successfully!", "result">>,
                     FALSE, "none", "none")
        ELSE IF IsException(innerExc)
        THEN Outcome(c, m \o <<"Error in agent/task setup", "Detailed error">>,
                     FALSE, "none", "inner")
        ELSE OuterExcept(innerExc, c, m)

\* setup_azure_openai: every Exception of the probe is caught and reported.
setup_azure_openai(probe) ==
    [ret |-> probe = "ok",
     calls |-> <<"probe">>,
     msgs |-> IF probe = "ok" THEN <<>> ELSE <<"Azure OpenAI Setup Error">>]

\* The truth value of the uploader's result: None, or an UploadedFile.
Uploaded(up) == "data" \in DOMAIN up

\* Faulty variant: st.stop() is missing after a failed probe.
GenerateHandler_NoStop(up, key, probe, build, kick) ==
    IF ~Uploaded(up)
    THEN Outcome(<<>>, <<"Please upload a transcript file.">>, FALSE, "none", "none")
    ELSE IF ~Truthy(key)
    THEN Outcome(<<>>, <<"Please enter your Azure OpenAI API Key.">>, FALSE, "none", "none")
    ELSE IF \E i \in 1..Len(up.data) : up.data[i] = BADBYTE
    THEN Outcome(<<>>, <<>>, FALSE, "UnicodeDecodeError", "none")
    ELSE LET su == setup_azure_openai(probe) IN
         IF ~su.ret
         THEN Pipeline(build, kick, su.calls,
                       su.msgs \o <<"Failed to setup Azure OpenAI connection">>)
         ELSE Pipeline(build, kick, su.calls, su.msgs)

\* Lines 163-251.
GenerateHandler(up, key, probe, build, kick) ==
    IF ~Uploaded(up)
    THEN Outcome(<<>>, <<"Please upload a transcript file.">>, FALSE, "none", "none")
    ELSE IF ~Truthy(key)
    THEN Outcome(<<>>, <<"Please enter your Azure OpenAI API Key.">>, FALSE, "none", "none")
    ELSE IF \E i \in 1..Len(up.data) : up.data[i] = BADBYTE
    THEN Outcome(<<>>, <<>>, FALSE, "UnicodeDecodeError", "none")
    ELSE LET su == setup_azure_openai(probe) IN
         IF ~su.ret
         THEN OuterExcept("StopException", su.calls,
                          su.msgs \o <<"Failed to setup Azure OpenAI connection">>)
         ELSE Pipeline(build, kick, su.calls, su.msgs)

----------------------------------------------------------------------------
(* State *)

VARIABLES
    env,              \* the process environment: api_key, vault_name
    file,             \* agent_task_config.json on disk
    session_prompts,  \* st.session_state['prompts'], PyNone before it is set
    key_input,        \* the text in the password input of the session
    uploaded_file,    \* the uploader's value: PyNone or [data |-> bytes]
    run,              \* what the last script run did
    lastSaved,        \* history: the mapping of the last save_config call
    steps,            \* UI events so far
    edits,            \* prompt edits so far
    writers,          \* the processes saving concurrently: position, offset
    lastClosed        \* history: the writers in the order their saves ended

vars == <<env, file, session_prompts, key_input, uploaded_file, run,
          lastSaved, steps, edits, writers, lastClosed>>

NoRun ==
    [event |-> "none", cred |-> PyNone, key |-> PyNone, calls |-> <<>>,
     msgs |-> <<>>, raised |-> "none", stopped |-> FALSE, handler |-> "none",
     vault |-> "unused", probe |-> "unused", build |-> "unused",
     kick |-> "unused"]

Count(seq, x) == Cardinality({i \in 1..Len(seq) : seq[i] = x})

\* One run of the script, top to bottom, for the UI event ev.  f, sp, typed
\* and up are the file, the session prompts, the password text and the
\* upload as the run finds them; edit is the widget the user changed;
\* vault, probe, build and kick are what the remote parties do if called.
ScriptRun(ev, e, f, sp, typed, up, edit, vault, probe, build, kick) ==
    LET cfg == load_config(f) IN
    IF cfg.raised # "none"
    THEN [file |-> f, session_prompts |-> sp, key_input |-> typed, saved |-> PyNone,
          run |-> [NoRun EXCEPT !.event = ev, !.raised = cfg.raised]]
    ELSE
    LET cred == get_azure_credentials(e, vault)
        usedVault == IF Count(cred.calls, "vault") > 0 THEN vault ELSE "unused"
    IN
    IF cred.raised # "none"
    THEN [file |-> f, session_prompts |-> sp, key_input |-> typed, saved |-> PyNone,
          run |-> [NoRun EXCEPT !.event = ev, !.raised = cred.raised,
                                !.calls = cred.calls, !.vault = usedVault]]
    ELSE
    LET typed2 == IF Truthy(cred.ret) THEN <<>> ELSE typed
        key == ResolveKey(cred.ret, typed2)
        p0 == IF sp = PyNone THEN InitPrompts(cfg.val) ELSE sp
        base == [NoRun EXCEPT !.event = ev, !.cred = cred.ret, !.key = key,
                              !.calls = cred.calls, !.msgs = cred.msgs,
                              !.vault = usedVault]
    IN
    IF WidgetError(p0) # "none"
    THEN [file |-> f, session_prompts |-> p0, key_input |-> typed2, saved |-> PyNone,
          run |-> [base EXCEPT !.raised = WidgetError(p0)]]
    ELSE
    LET p1 == ApplyEdit(p0, edit) IN
    IF ev = "save"
    THEN [file |-> save_config(SavedValue(p1, key), f),
          session_prompts |-> p1, key_input |-> typed2,
          saved |-> SavedValue(p1, key),
          run |-> [base EXCEPT !.msgs = @ \o <<"Configuration saved successfully!">>]]
    ELSE IF ev = "generate"
    THEN LET g == GenerateHandler(up, key, probe, build, kick) IN
         [file |-> f, session_prompts |-> p1, key_input |-> typed2, saved |-> PyNone,
          run |-> [base EXCEPT
                     !.calls = @ \o g.calls, !.msgs = @ \o g.msgs,
                     !.raised = g.raised, !.stopped = g.stopped,
                     !.handler = g.handler,
                     !.probe = IF Count(g.calls, "probe") > 0 THEN probe ELSE "unused",
                     !.build = IF Count(g.calls, "Agent") > 0 THEN build ELSE "unused",
                     !.kick = IF Count(g.calls, "kickoff") > 0 THEN kick ELSE "unused"]]
    ELSE [file |-> f, session_prompts |-> p1, key_input |-> typed2, saved |-> PyNone,
          run |-> base]

Idle == [pc |-> "idle", offset |-> 0, pending |-> <<>>, config |-> PyNone,
         overlapped |-> FALSE]
Procs == {1, 2}

\* The environments of a process, and those among them in which no
\* variable is set to the empty string (which the code treats as unset).
Envs == [api_key : EnvKeyValues, vault_name : EnvVaultValues]
PageEnvs == {e \in Envs : e.api_key # PyStr(<<>>) /\ e.vault_name # PyStr(<<>>)}

\* A process starts in one of the environments envs; no config file yet.
Start(envs) ==
    /\ env \in envs
    /\ file = NoFile
    /\ session_prompts = PyNone
    /\ key_input = <<>>
    /\ uploaded_file = PyNone
    /\ run = NoRun
    /\ lastSaved = PyNone
    /\ steps = 0
    /\ edits = 0
    /\ writers = [p \in Procs |-> Idle]
    /\ lastClosed = <<>>

Init == Start(PageEnvs)
InitGen == Start(Envs)

\* The state after a script run r for which the user set the password text
\* and the upload to typed and up.
Apply(r, up) ==
    /\ file' = r.file
    /\ session_prompts' = r.session_prompts
    /\ key_input' = r.key_input
    /\ uploaded_file' = up
    /\ run' = r.run
    /\ lastSaved' = IF r.saved = PyNone THEN lastSaved ELSE r.saved
    /\ UNCHANGED <<env, writers, lastClosed>>

\* The page was drawn down to its widgets by the last run.
PageDrawn ==
    /\ run.event # "none"
    /\ run.raised \in {"none", "UnicodeDecodeError", "AttributeError"}
    /\ session_prompts # PyNone

\* The remote parties answer only when called; a party the run does not
\* call has the outcome "unused".
Asked(calls, what, outcomes) ==
    IF Count(calls, what) > 0 THEN outcomes ELSE {"unused"}

VaultChoices == Asked(get_azure_credentials(env, "secret").calls, "vault", VaultOutcomes)

\* A browser session opens the page (at process start or later): a fresh
\* session state, and the script runs.
PageLoad(limit) ==
    /\ run.event = "none" \/ steps < limit
    /\ steps' = IF run.event = "none" THEN steps ELSE steps + 1
    /\ edits' = edits
    /\ \E vault \in VaultChoices :
         Apply(ScriptRun("load", env, file, PyNone, <<>>, PyNone, NoEdit,
                         vault, "unused", "unused", "unused"), PyNone)

\* The user changes one prompt field.
EditPrompt(limit) ==
    /\ PageDrawn
    /\ steps < limit /\ edits < MaxEdits
    /\ steps' = steps + 1
    /\ edits' = edits + 1
    /\ \E t \in EditTargets(session_prompts), text \in EditTexts, vault \in VaultChoices :
         Apply(ScriptRun("edit", env, file, session_prompts, key_input,
                         uploaded_file, <<t[1], t[2], text>>,
                         vault, "unused", "unused", "unused"), uploaded_file)

\* The user types into the password input, which the last run drew.
TypeKey(limit) ==
    /\ PageDrawn /\ ~Truthy(run.cred)
    /\ steps < limit
    /\ steps' = steps + 1
    /\ edits' = edits
    /\ \E text \in KeyTexts, vault \in VaultChoices :
         Apply(ScriptRun("key", env, file, session_prompts, text,
                         uploaded_file, NoEdit, vault, "unused", "unused", "unused"),
               uploaded_file)

\* The user uploads a transcript.
Upload(limit) ==
    /\ PageDrawn
    /\ steps < limit
    /\ steps' = steps + 1
    /\ edits' = edits
    /\ \E data \in Uploads, vault \in VaultChoices :
         Apply(ScriptRun("upload", env, file, session_prompts, key_input,
                         [data |-> data], NoEdit, vault, "unused", "unused", "unused"),
               [data |-> data])

\* The user presses Save Configuration.
ClickSave(limit) ==
    /\ PageDrawn
    /\ steps < limit
    /\ steps' = steps + 1
    /\ edits' = edits
    /\ \E vault \in VaultChoices :
         Apply(ScriptRun("save", env, file, session_prompts, key_input,
                         uploaded_file, NoEdit, vault, "unused", "unused", "unused"),
               uploaded_file)

\* The user presses Generate Research Article.
ClickGenerate(limit) ==
    /\ PageDrawn
    /\ steps < limit
    /\ steps' = steps + 1
    /\ edits' = edits
    /\ \E vault \in VaultChoices :
       LET key == ResolveKey(get_azure_credentials(env, vault).ret, key_input)
           G(probe, build, kick) ==
               GenerateHandler(uploaded_file, key, probe, build, kick).calls
       IN
       \E probe \in Asked(G("ok", "ok", "result"), "probe", ProbeOutcomes) :
       \E build \in Asked(G(probe, "ok", "result"), "Agent", BuildOutcomes) :
       \E kick \in Asked(G(probe, build, "result"), "kickoff", KickOutcomes) :
         Apply(ScriptRun("generate", env, file, session_prompts, key_input,
                         uploaded_file, NoEdit, vault, probe, build, kick),
               uploaded_file)

Next ==
    \/ PageLoad(MaxEvents)
    \/ EditPrompt(MaxEvents)
    \/ TypeKey(MaxEvents)
    \/ Upload(MaxEvents)
    \/ ClickSave(MaxEvents)
    \/ ClickGenerate(MaxEvents)

\* Every use of the page, in the environments PageEnvs.
Spec == Init /\ [][Next]_vars

\* The sessions in which the user leaves the prompt fields and the Save
\* button alone, in every environment: longer runs of key entry, upload
\* and generation.
NextGen ==
    \/ PageLoad(MaxGenEvents)
    \/ TypeKey(MaxGenEvents)
    \/ Upload(MaxGenEvents)
    \/ ClickGenerate(MaxGenEvents)

SpecGen == InitGen /\ [][NextGen]_vars

----------------------------------------------------------------------------
(* Two runs of the process saving to the same file *)

\* The mappings the two processes hold when they save: the built-in prompts,
\* as they are or with one field edited.
RaceConfigs ==
    {Defaults} \cup {ApplyEdit(Defaults, <<"planner", "role", text>>) : text \in EditTexts}

Other(p) == CHOOSE q \in Procs : q # p

Min(a, b) == IF a < b THEN a ELSE b

\* save_config, line 51: open(path, "w") empties the file; the writer's
\* offset is 0 and json.dump's output waits in the file object's buffer.
Open(p) ==
    /\ writers[p].pc = "idle"
    /\ Count(lastClosed, p) < MaxSaves
    /\ \E config \in RaceConfigs :
         LET opened == Truncate(file)
             both == writers[Other(p)].pc = "open"
         IN
         /\ file' = opened
         /\ writers' = [writers EXCEPT
                ![p] = [pc |-> "open", offset |-> Len(opened.data),
                        pending |-> Dump(config), config |-> config,
                        overlapped |-> both],
                ![Other(p)] = [@ EXCEPT !.overlapped = @ \/ both]]
    /\ UNCHANGED <<env, session_prompts, key_input, uploaded_file, run,
                   lastSaved, steps, edits, lastClosed>>

\* The buffer is flushed (when full, or at close): one write at the
\* writer's own offset.
Write(p) ==
    /\ writers[p].pc = "open"
    /\ writers[p].pending # <<>>
    /\ LET n == Min(ChunkLen, Len(writers[p].pending))
           chunk == SubSeq(writers[p].pending, 1, n)
       IN
       /\ file' = FileOf(WriteAt(file.data, writers[p].offset, chunk))
       /\ writers' = [writers EXCEPT
              ![p] = [@ EXCEPT !.offset = @ + n,
                               !.pending = SubSeq(@, n + 1, Len(@))]]
    /\ UNCHANGED <<env, session_prompts, key_input, uploaded_file, run,
                   lastSaved, steps, edits, lastClosed>>

\* The with block ends: the file is closed once everything is written.
Close(p) ==
    /\ writers[p].pc = "open"
    /\ writers[p].pending = <<>>
    /\ writers' = [writers EXCEPT ![p] = [@ EXCEPT !.pc = "idle"]]
    /\ lastClosed' = Append(lastClosed, p)
    /\ UNCHANGED <<env, file, session_prompts, key_input, uploaded_file, run,
                   lastSaved, steps, edits>>

InitRace ==
    /\ env = [api_key |-> PyNone, vault_name |-> PyNone]
    /\ file = NoFile
    /\ session_prompts = PyNone
    /\ key_input = <<>>
    /\ uploaded_file = PyNone
    /\ run = NoRun
    /\ lastSaved = PyNone
    /\ steps = 0
    /\ edits = 0
    /\ writers = [p \in Procs |-> Idle]
    /\ lastClosed = <<>>

NextRace == \E p \in Procs : Open(p) \/ Write(p) \/ Close(p)

SpecRace == InitRace /\ [][NextRace]_vars

----------------------------------------------------------------------------
(* Properties *)

PipelineCalls == {"Agent", "Task", "Crew", "kickoff"}
NoPipeline == \A i \in 1..Len(run.calls) : run.calls[i] \notin PipelineCalls
Shown(m) == Count(run.msgs, m) > 0
AllWhitespace(s) == \A i \in 1..Len(s) : s[i] \in Whitespace

\* C1: in a generate action with an uploaded file and a non-empty
\* credential, every pipeline step (agent, task, crew, kickoff) comes after
\* the connectivity probe, the probe is issued whenever the transcript
\* decodes (an empty transcript included), and a failed probe is reported
\* and halts the run: no agent or task is built and kickoff is not called.
C1_ProbeBeforePipeline ==
    (run.event = "generate" /\ Uploaded(uploaded_file) /\ Truthy(run.key)) =>
        /\ \A i \in 1..Len(run.calls) :
             run.calls[i] \in PipelineCalls =>
                \E j \in 1..(i - 1) : run.calls[j] = "probe"
        /\ run.raised # "UnicodeDecodeError" => Count(run.calls, "probe") = 1
        /\ ~NoPipeline => run.probe = "ok"
        /\ run.probe \in ProbeOutcomes \ {"ok"} =>
             /\ NoPipeline
             /\ Shown("Azure OpenAI Setup Error")
             /\ Shown("Failed to setup Azure OpenAI connection")
             /\ run.stopped
             /\ ~Shown("API connection successful!")

C1_Witness ==
    /\ run.event = "generate"
    /\ uploaded_file = [data |-> <<>>]
    /\ Truthy(run.key)
    /\ run.probe = "http_error"
    /\ run.stopped

\* C2: a generate action without an uploaded file, or with no credential
\* (none resolved and the typed key empty or only whitespace), shows the
\* validation message, calls neither the probe nor the pipeline and raises
\* nothing.
C2_ValidationBlocksGenerate ==
    (/\ run.event = "generate"
     /\ \/ ~Uploaded(uploaded_file)
        \/ ~Truthy(run.cred) /\ AllWhitespace(key_input)) =>
        /\ Count(run.calls, "probe") = 0
        /\ NoPipeline
        /\ run.raised = "none"
        /\ ~run.stopped
        /\ IF ~Uploaded(uploaded_file)
           THEN Shown("Please upload a transcript file.")
           ELSE Shown("Please enter your Azure OpenAI API Key.")

C2_Witness ==
    /\ run.event = "generate"
    /\ Uploaded(uploaded_file)
    /\ ~Truthy(run.cred)
    /\ key_input = <<SPACE>>
    /\ Shown("Please enter your Azure OpenAI API Key.")

\* C3: with AZURE_OPENAI_API_KEY set to a non-empty string,
\* get_azure_credentials returns exactly that string, whatever
\* AZURE_KEY_VAULT_NAME is, and the secret store is not contacted.
C3_EnvKeyWins ==
    (run.event # "none" /\ Truthy(env.api_key)) =>
        /\ run.cred = env.api_key
        /\ run.key = env.api_key
        /\ Count(run.calls, "vault") = 0
        /\ run.vault = "unused"

C3_Witness ==
    /\ run.event # "none"
    /\ env.api_key = PyStr(<<"K1">>)
    /\ env.vault_name = PyStr(<<"vault">>)
    /\ run.cred = PyStr(<<"K1">>)

\* C4 as stated: with the primary variable absent or empty and the
\* secret-store variable set, the store is attempted exactly once per call.
C4_Original ==
    (run.event # "none" /\ ~Truthy(env.api_key) /\ env.vault_name # PyNone) =>
        Count(run.calls, "vault") = 1

\* C4, amended: with the primary variable absent or empty and the
\* secret-store variable set to a non-empty name, one call attempts the
\* store exactly once; if the attempt fails the call shows one error
\* message, raises nothing and returns None, and the typed key is used.
C4_VaultOnceAndNonFatal ==
    (run.event # "none" /\ ~Truthy(env.api_key) /\ Truthy(env.vault_name)) =>
        /\ Count(run.calls, "vault") = 1
        /\ run.vault \in VaultOutcomes
        /\ VaultFails(run.vault) =>
             /\ run.cred = PyNone
             /\ run.raised \notin VaultOutcomes
             /\ Count(run.msgs, "Error getting Azure credentials") = 1
             /\ run.key = PyStr(Strip(key_input))
        /\ ~VaultFails(run.vault) => run.cred = VaultSecret

C4_Witness ==
    /\ run.event # "none"
    /\ env.api_key = PyStr(<<>>)
    /\ env.vault_name = PyStr(<<"vault">>)
    /\ run.vault = "network_error"
    /\ run.cred = PyNone

\* C5: after save_config(x), with no later write, load_config() returns a
\* mapping equal to x, and a session opened later starts from it.
C5_SaveLoadRoundTrip ==
    lastSaved # PyNone =>
        /\ Exists(file)
        /\ load_config(file) = [raised |-> "none", val |-> lastSaved]
        /\ run.event = "load" => session_prompts = lastSaved

C5_Witness ==
    /\ run.event = "save"
    /\ lastSaved # PyNone
    /\ \E t \in EditTargets(Defaults) :
         lastSaved.obj[t[1]].obj[t[2]].str = <<QUOTE, "hi", BSL>>

\* The symbols of the credentials: of the environment, of the secret store
\* and of the typed keys.
SecretSymbols == {"K1", "S1", "K2"}

\* C6: the config file never holds the credential: it is a mapping with the
\* four prompt keys and no credential symbol occurs in it, however the
\* credential was resolved.
C6_CredentialNotPersisted ==
    Exists(file) =>
        /\ \A i \in 1..Len(file.data) : file.data[i] \notin SecretSymbols
        /\ LET loaded == load_config(file) IN
           loaded.raised = "none" /\ DOMAIN loaded.val.obj = TopKeys

C6_Witness ==
    /\ run.event = "save"
    /\ Exists(file)
    /\ run.key = PyStr(<<"K2">>)
    /\ key_input = <<SPACE, "K2", SPACE>>

\* C7: load_config on a missing file returns the empty mapping and raises
\* nothing, and the session then starts from the built-in prompts.
C7_MissingFileGivesDefaults ==
    (run.event = "load" /\ ~Exists(file)) =>
        /\ load_config(file) = [raised |-> "none", val |-> PyObj(EmptyMap)]
        /\ run.raised = "none"
        /\ session_prompts = Defaults

C7_Witness ==
    /\ run.event = "load"
    /\ ~Exists(file)
    /\ run.raised = "none"
    /\ session_prompts = Defaults

C9_KickoffApiErrorReported ==
    (run.event = "generate" /\ IsRequestException(run.kick)) =>
        /\ run.handler = "api"
        /\ Shown("API Error occurred:")
        /\ run.kick = "request_error_with_response" =>
             Shown("Response Status Code") /\ Shown("Response Content")

BothSaved == \A p \in Procs : writers[p].pc = "idle" /\ Count(lastClosed, p) > 0
LastWriter == lastClosed[Len(lastClosed)]

\* C10 as stated: once both saves have finished, the file holds the mapping
\* of the save that finished last, and load_config returns it.
C10_Original ==
    BothSaved =>
        /\ file = FileOf(Dump(writers[LastWriter].config))
        /\ load_config(file) = [raised |-> "none", val |-> writers[LastWriter].config]

\* C10, amended: once both saves have finished, if the save that finished
\* last did not overlap another save (no other process had the file open
\* between its open and its close), the file holds its mapping and
\* load_config returns it.
C10_LastWriterWinsWhenNotOverlapping ==
    (BothSaved /\ ~writers[LastWriter].overlapped) =>
        /\ file = FileOf(Dump(writers[LastWriter].config))
        /\ load_config(file) = [raised |-> "none", val |-> writers[LastWriter].config]

C10_Witness ==
    /\ BothSaved
    /\ ~writers[LastWriter].overlapped
    /\ writers[1].config # writers[2].config
    /\ Len(Dump(writers[LastWriter].config)) < Len(Dump(writers[Other(LastWriter)].config))

====
